---- MODULE Spec2Model ----
(***************************************************************************)
(* Model of template_ffd's TemplateFfdBuilder                              *)
(* (src/model/template_ffd_builder.py): the prediction post-processors     *)
(* (best mesh, top-k meshes, best cloud, segmented cloud, segmented mesh), *)
(* the label smoothing of get_inference, the loss assembly of              *)
(* get_inference_loss and the annealing schedules.                         *)
(*                                                                         *)
(* Arrays are sequences (1-based: template index i of the source is i+1    *)
(* here).  Real numbers are exact rationals <<num, den>>; B, P, dp and the *)
(* probs handed to the post-processors are small integers.                 *)
(***************************************************************************)
EXTENDS Integers, Sequences, FiniteSets, TLC

VARIABLES
    n_templates,   \* len(self.template_ids)
    store,         \* per-template data captured by the closures: bs, ps, ...
    ds_keys,       \* which template keys each annotation dataset contains
    argsort_ties,  \* the order in which this numpy build's argsort leaves ties
    call,          \* the last post-processor call and the arguments passed
    probs,         \* the caller's probs array as the last call left it
    dp,            \* the caller's dp array as the last call left it
    result,        \* what the last call returned
    params,        \* self.params: gamma, prob_eps, entropy_loss, dp_regularization
    global_step,   \* tf.train.get_or_create_global_step()
    pc,            \* where the training step stands
    raw_probs,     \* the softmax output of the network, batch x n_templates
    inference,     \* what get_inference returned: probs and dp
    trace,         \* what get_inference_loss built, in order
    graph,         \* the loss terms get_inference_loss appended to `losses`
    snaps,         \* the global-step value each annealing factor read
    run            \* the values of one evaluation of the loss

predVars == <<n_templates, store, ds_keys, argsort_ties, call, probs, dp,
              result>>
lossVars == <<params, global_step, pc, raw_probs, inference, trace, graph,
              snaps, run>>

----------------------------------------------------------------------------
(* Bounds *)

MaxTemplates == 3      \* n_templates ranges over 1..MaxTemplates
MaxSegTemplates == 2   \* n_templates for the segmented post-processors
MaxProb == 2           \* probs entries handed to the post-processors: 0..MaxProb
MaxLossTemplates == 2  \* n_templates when the loss is modelled
MaxTrainTemplates == 1 \* n_templates when training steps are modelled
ProbDen == 2           \* softmax outputs are multiples of 1 / ProbDen
MaxStep == 3           \* the global step counts 0..MaxStep
BatchSize == 2         \* examples per batch
LogScale == 16         \* tf.log is rounded to multiples of 1 / LogScale
NResamples == 1        \* n_ffd_resamples: basis rows drawn per template
LatticeN == 0          \* lattice order n; K = (n+1)^3 control points

----------------------------------------------------------------------------
(* Python None and present values *)

None == [none |-> TRUE]
Some(v) == [none |-> FALSE, v |-> v]
IsNone(x) == x.none

----------------------------------------------------------------------------
(* numpy helpers *)

\* an array with its elements computed (once), rather than a rule for
\* computing them
Array(f) == f \o <<>>

RECURSIVE SumTo(_, _)
SumTo(f, k) == IF k = 0 THEN 0 ELSE f[k] + SumTo(f, k - 1)

\* a + b for two arrays of the same shape (rows of columns)
MatAdd(a, b) ==
    Array([r \in 1..Len(a) |-> Array([c \in 1..Len(a[r]) |-> a[r][c] + b[r][c]])])

\* np.matmul(a, b): a is m x K, b is K x 3
MatMul(a, b) ==
    Array([r \in 1..Len(a) |->
        Array([c \in 1..Len(b[1]) |->
            SumTo([k \in 1..Len(b) |-> a[r][k] * b[k][c]], Len(b))])])

\* (mutant) the last index holding the maximum
ArgMaxLast(p) ==
    CHOOSE i \in 1..Len(p) :
        /\ \A j \in 1..Len(p) : p[j] <= p[i]
        /\ \A j \in (i + 1)..Len(p) : p[j] < p[i]

\* np.argmax(probs): the first index holding the maximum
ArgMax(p) ==
    CHOOSE i \in 1..Len(p) :
        /\ \A j \in 1..Len(p) : p[j] <= p[i]
        /\ \A j \in 1..(i - 1) : p[j] < p[i]

\* probs.argsort(): a permutation of the indices that puts probs in
\* ascending order.  The default kind is 'quicksort', which numpy documents
\* as not stable, so every order of equal entries is a possible outcome.
ArgSorts(p) ==
    { s \in [1..Len(p) -> 1..Len(p)] :
        /\ \A i, j \in 1..Len(p) : i # j => s[i] # s[j]
        /\ \A i \in 1..(Len(p) - 1) : p[s[i]] <= p[s[i + 1]] }

\* the ranks by which a build of numpy may order equal entries; the ranks
\* of a stable sort are the indices themselves
TieRanks(n) == Permutations(1..n)
StableTies(n) == [t \in 1..n |-> t]

\* probs.argsort() of one build: a function of probs, equal entries in the
\* order of their ranks
ArgSort(p, ties) ==
    CHOOSE s \in ArgSorts(p) :
        \A i \in 1..(Len(p) - 1) :
            p[s[i]] = p[s[i + 1]] => ties[s[i]] < ties[s[i + 1]]

\* a[-3:]
Last3(a) == [i \in 1..(IF Len(a) < 3 THEN Len(a) ELSE 3) |->
                a[(IF Len(a) < 3 THEN 0 ELSE Len(a) - 3) + i]]

\* a[::-1]
Reversed(a) == [i \in 1..Len(a) |-> a[Len(a) + 1 - i]]

----------------------------------------------------------------------------
(* The template store: what get_ffd_data and the mesh dataset hand over *)

n_control_points == (LatticeN + 1) * (LatticeN + 1) * (LatticeN + 1)

\* template t has m_t = t + 2 vertices: the basis is ragged across templates
TemplateB(t) == [r \in 1..(t + 2) |-> [k \in 1..n_control_points |->
                    IF (k + r + t) % 3 = 0 THEN 1 ELSE 0]]
TemplateP(t) == [k \in 1..n_control_points |-> [a \in 1..3 |-> (k * t + a) % 4]]
TemplateFaces(t) == << <<1, 2, t + 2>> >>
TemplateVertices(t) == [r \in 1..(t + 2) |-> [a \in 1..3 |-> 10 * t + r + a]]
TemplateId(t) == 100 + t

TemplateStore(n) ==
    [bs |-> [t \in 1..n |-> TemplateB(t)],
     ps |-> [t \in 1..n |-> TemplateP(t)],
     all_faces |-> [t \in 1..n |-> TemplateFaces(t)],
     all_vertices |-> [t \in 1..n |-> TemplateVertices(t)],
     example_ids |-> [t \in 1..n |-> TemplateId(t)]]

\* the dp tensors the network may hand over: n_templates x K x 3; the
\* squared norm of the shift differs from template to template
DpField(n, v) == [t \in 1..n |-> [k \in 1..n_control_points |->
                    [a \in 1..3 |-> v * (((t + k + a) % 3) + t - 1)]]]
DpFields(n) == { DpField(n, v) : v \in {0, 1} }

ProbVectors(n) == [1..n -> 0..MaxProb]

NoCall == [fn |-> "none"]

----------------------------------------------------------------------------
(* What a transform leaves behind in the arrays it was handed and in the   *)
(* arrays its closure holds                                                 *)

\* (mutant) ps[i] += dp[i]
StoreAfterInPlaceAdd(st, i, d) == [st EXCEPT !.ps[i] = MatAdd(@, d[i])]

\* np.matmul(bs[i], ps[i] + dp[i]): the sum and the product are new arrays,
\* bs[i] and ps[i] are read only
StoreAfter(st, i, d) == st

\* the store after get_deformed_mesh(k, dp) for the first j of ks
RECURSIVE StoreAfterMeshes(_, _, _, _)
StoreAfterMeshes(st, ks, d, j) ==
    IF j = 0 THEN st
    ELSE StoreAfter(StoreAfterMeshes(st, ks, d, j - 1), ks[j], d)

----------------------------------------------------------------------------
(* get_prediction_to_mesh_fn(...).transform_predictions *)

MeshResult(st, p, d) ==
    LET i == ArgMax(p) IN
    [vertices |-> MatMul(st.bs[i], MatAdd(st.ps[i], d[i])),
     faces |-> st.all_faces[i],
     original_vertices |-> st.all_vertices[i],
     attrs |-> [template_id |-> st.example_ids[i]]]

PredictMesh ==
    \E p \in ProbVectors(n_templates), d \in DpFields(n_templates) :
        /\ call = NoCall
        /\ probs' = p
        /\ dp' = d
        /\ call' = [fn |-> "mesh", probs |-> p, dp |-> d]
        /\ result' = Some(MeshResult(store, p, d))
        /\ store' = StoreAfter(store, ArgMax(p), d)
        /\ UNCHANGED <<n_templates, ds_keys, argsort_ties, lossVars>>

----------------------------------------------------------------------------
(* get_prediction_to_top_k_mesh_fn(top_k=...).transform_predictions *)

get_deformed_mesh(st, i, d) ==
    [vertices |-> MatMul(st.bs[i], MatAdd(st.ps[i], d[i])),
     faces |-> st.all_faces[i],
     original_vertices |-> st.all_vertices[i]]

\* ks = probs.argsort()[-3:][::-1], for one outcome `sorted` of the argsort
TopKIndices(sorted) == Reversed(Last3(sorted))

TopKResult(st, sorted, d) ==
    LET ks == TopKIndices(sorted) IN
    [j \in 1..Len(ks) |-> get_deformed_mesh(st, ks[j], d)]

PredictTopK ==
    \E k \in 1..n_templates, p \in ProbVectors(n_templates),
       d \in DpFields(n_templates) :
        LET sorted == ArgSort(p, argsort_ties) IN
            /\ call = NoCall
            /\ probs' = p
            /\ dp' = d
            /\ call' = [fn |-> "top_k", probs |-> p, dp |-> d, top_k |-> k,
                        ks |-> TopKIndices(sorted)]
            /\ result' = Some(TopKResult(store, sorted, d))
            /\ store' = StoreAfterMeshes(store, TopKIndices(sorted), d,
                                         Len(TopKIndices(sorted)))
            /\ UNCHANGED <<n_templates, ds_keys, argsort_ties, lossVars>>

----------------------------------------------------------------------------
(* get_prediction_to_cloud_fn(n_samples=None).transform_predictions *)

CloudResult(st, p, d) ==
    LET i == ArgMax(p) IN
    [cloud |-> MatMul(st.bs[i], MatAdd(st.ps[i], d[i])),
     attrs |-> [template_id |-> st.example_ids[i]]]

PredictCloud ==
    \E p \in ProbVectors(n_templates), d \in DpFields(n_templates) :
        /\ call = NoCall
        /\ probs' = p
        /\ dp' = d
        /\ call' = [fn |-> "cloud", probs |-> p, dp |-> d]
        /\ result' = Some(CloudResult(store, p, d))
        /\ store' = StoreAfter(store, ArgMax(p), d)
        /\ UNCHANGED <<n_templates, ds_keys, argsort_ties, lossVars>>

----------------------------------------------------------------------------
(* Annotation data of the templates: the annotated point cloud of a        *)
(* template, its per-point segmentation labels, and the FFD decomposition  *)
(* (b, p) of the annotated points.                                         *)

TemplateSegPoints(t) == [r \in 1..(t + 2) |-> [a \in 1..3 |-> 10 * t + 2 * r + a]]
TemplateSeg(t) == [r \in 1..(t + 2) |-> (r + t) % 2]
AnnotationB(t) == [r \in 1..(t + 2) |-> [k \in 1..n_control_points |->
                    IF (k + r) % 2 = 0 THEN 1 ELSE 0]]
AnnotationP(t) == TemplateP(t)

\* get_centroids(vertices, faces), times 3: the sum of each face's corners
Centroids3(vertices, faces) ==
    [f \in 1..Len(faces) |-> [a \in 1..3 |->
        vertices[faces[f][1]][a] + vertices[faces[f][2]][a]
            + vertices[faces[f][3]][a]]]

\* squared distance between 3 * point and a tripled centroid
Dist3(point, c3) ==
    SumTo([a \in 1..3 |-> (3 * point[a] - c3[a]) * (3 * point[a] - c3[a])], 3)

\* get_nn(data, query_points): for every query point the index of a nearest
\* data point (cKDTree.query; which of several nearest ones is not specified)
get_nn(data, queries3) ==
    [q \in 1..Len(queries3) |->
        CHOOSE i \in 1..Len(data) :
            \A j \in 1..Len(data) :
                Dist3(data[i], queries3[q]) <= Dist3(data[j], queries3[q])]

\* original_seg[get_nn(seg_points, centroids)]
FaceSeg(t) ==
    LET nn == get_nn(TemplateSegPoints(t),
                     Centroids3(TemplateVertices(t), TemplateFaces(t)))
    IN [f \in 1..Len(nn) |-> TemplateSeg(t)[nn[f]]]

----------------------------------------------------------------------------
(* get_segmented_cloud_fn: the lists the closure captures, then            *)
(* transform_predictions                                                   *)

SegCloudLists(keys, n) ==
    [bs |-> [t \in 1..n |-> IF t \in keys.ann THEN Some(AnnotationB(t)) ELSE None],
     ps |-> [t \in 1..n |-> IF t \in keys.ann THEN Some(AnnotationP(t)) ELSE None],
     segs |-> [t \in 1..n |-> IF t \in keys.seg THEN Some(TemplateSeg(t)) ELSE None],
     original_points |->
        [t \in 1..n |-> IF t \in keys.pts THEN Some(TemplateSegPoints(t)) ELSE None]]

SegmentedCloudResult(lists, p, d) ==
    LET i == ArgMax(p)
        b == lists.bs[i]
    IN IF IsNone(b)
       THEN None
       ELSE Some([points |-> MatMul(b.v, MatAdd(lists.ps[i].v, d[i])),
                  segmentation |-> lists.segs[i],
                  original_points |-> lists.original_points[i]])

PredictSegmentedCloud ==
    \E p \in ProbVectors(n_templates), d \in DpFields(n_templates) :
        /\ call = NoCall
        /\ probs' = p
        /\ dp' = d
        /\ call' = [fn |-> "segmented_cloud", probs |-> p, dp |-> d]
        /\ result' = SegmentedCloudResult(SegCloudLists(ds_keys, n_templates), p, d)
        /\ UNCHANGED <<n_templates, store, ds_keys, argsort_ties, lossVars>>

----------------------------------------------------------------------------
(* get_segmented_mesh_fn: the lists the closure captures, then             *)
(* transform_predictions.  bs and ps come from get_ffd_data and are always *)
(* present; the zipped dataset holds a template when the point-cloud and   *)
(* the segmentation dataset both do (every template has a mesh).           *)

SegMeshLists(st, keys, n) ==
    [bs |-> st.bs,
     ps |-> st.ps,
     segs |-> [t \in 1..n |->
        IF t \in keys.pts /\ t \in keys.seg THEN Some(FaceSeg(t)) ELSE None],
     original_seg_points |-> [t \in 1..n |->
        IF t \in keys.pts /\ t \in keys.seg
        THEN Some(TemplateSegPoints(t)) ELSE None],
     original_segs |-> [t \in 1..n |->
        IF t \in keys.pts /\ t \in keys.seg THEN Some(TemplateSeg(t)) ELSE None],
     faces |-> [t \in 1..n |->
        IF t \in keys.pts /\ t \in keys.seg THEN Some(st.all_faces[t]) ELSE None]]

SegmentedMeshResult(lists, p, d) ==
    LET i == ArgMax(p)
        seg == lists.segs[i]
    IN IF IsNone(seg)
       THEN None
       ELSE Some([faces |-> lists.faces[i],
                  vertices |-> MatMul(lists.bs[i], MatAdd(lists.ps[i], d[i])),
                  segmentation |-> lists.segs[i],
                  original_points |-> lists.original_seg_points[i],
                  original_segmentation |-> lists.original_segs[i]])

PredictSegmentedMesh ==
    \E p \in ProbVectors(n_templates), d \in DpFields(n_templates) :
        /\ call = NoCall
        /\ probs' = p
        /\ dp' = d
        /\ call' = [fn |-> "segmented_mesh", probs |-> p, dp |-> d]
        /\ result' = SegmentedMeshResult(
                        SegMeshLists(store, ds_keys, n_templates), p, d)
        /\ store' = IF IsNone(result') THEN store
                    ELSE StoreAfter(store, ArgMax(p), d)
        /\ UNCHANGED <<n_templates, ds_keys, argsort_ties, lossVars>>

----------------------------------------------------------------------------
(* Real arithmetic: exact rationals <<numerator, denominator>>, the        *)
(* denominator positive and the fraction in lowest terms.                  *)

Abs(i) == IF i < 0 THEN -i ELSE i

RECURSIVE GCD(_, _)
GCD(a, b) == IF b = 0 THEN a ELSE GCD(b, a % b)

Rat(num, den) ==
    LET g == GCD(Abs(num), den) IN
    IF num < 0 THEN <<-(Abs(num) \div g), den \div g>>
               ELSE <<num \div g, den \div g>>

RInt(i) == <<i, 1>>
\* sums over the least common denominator
RAdd(x, y) ==
    LET g == GCD(x[2], y[2]) IN
    Rat(x[1] * (y[2] \div g) + y[1] * (x[2] \div g), x[2] * (y[2] \div g))
RSub(x, y) == RAdd(x, <<-y[1], y[2]>>)
RMul(x, y) == Rat(x[1] * y[1], x[2] * y[2])
RDivInt(x, i) == Rat(x[1], x[2] * i)
RLe(x, y) == x[1] * y[2] <= y[1] * x[2]
RLt(x, y) == x[1] * y[2] < y[1] * x[2]
RMax(x, y) == IF RLe(x, y) THEN y ELSE x

RECURSIVE RSum(_, _)
RSum(f, k) == IF k = 0 THEN RInt(0) ELSE RAdd(f[k], RSum(f, k - 1))

RECURSIVE Pow2(_)
Pow2(k) == IF k = 0 THEN 1 ELSE 2 * Pow2(k - 1)

(* Float values: a finite number, or inf / nan (not told apart)            *)

Fin(x) == [fin |-> TRUE, v |-> x]
NonFinite == [fin |-> FALSE]
VAdd(x, y) == IF x.fin /\ y.fin THEN Fin(RAdd(x.v, y.v)) ELSE NonFinite
VMul(x, y) == IF x.fin /\ y.fin THEN Fin(RMul(x.v, y.v)) ELSE NonFinite
VNeg(x) == IF x.fin THEN Fin(RSub(RInt(0), x.v)) ELSE NonFinite

RECURSIVE VSum(_, _)
VSum(f, k) == IF k = 0 THEN Fin(RInt(0)) ELSE VAdd(f[k], VSum(f, k - 1))

\* tf.log(x): -inf at 0 and nan below; above 0 the value is the first term
\* of ln x = 2 atanh((x - 1) / (x + 1)) rounded down to a multiple of
\* 1 / LogScale: 0 at 1, negative below 1 and non-decreasing
TfLog(x) ==
    IF RLe(x, RInt(0)) THEN NonFinite
    ELSE LET num == 2 * LogScale * (x[1] - x[2])
             den == x[1] + x[2]
             q == IF num >= 0 THEN num \div den
                  ELSE -(((-num) + den - 1) \div den)
         IN Fin(Rat(q, LogScale))

----------------------------------------------------------------------------
(* self.params *)

\* the weight_kwargs of a regularizer
RegKwargs(uniforms) ==
    [weight : {RInt(2)},
     uniform : uniforms,
     linear_annealing_cutoff : {None, Some(2)},
     exp_annealing_rate : {None, Some(1)}]

\* exp_annealing_rate r stands for the rate r * ln 2, so that
\* exp(-step * rate) is the rational 1 / 2^(step * r)

DefaultParams ==
    [gamma |-> None, prob_eps |-> None, entropy_loss |-> None,
     dp_regularization |-> None]

\* self.params.get('prob_eps', 0.1)
ProbEps(prm) == IF IsNone(prm.prob_eps) THEN Rat(1, 10) ELSE prm.prob_eps.v

\* self.params.get('gamma', 'linear')
GammaCode(prm) == IF IsNone(prm.gamma) THEN "linear" ELSE prm.gamma.v

----------------------------------------------------------------------------
(* get_inference: the label smoothing of the softmax output *)

\* the points of the simplex over n templates with coordinates k / ProbDen
SimplexGrid(n) ==
    { p \in [1..n -> 0..ProbDen] : SumTo(p, n) = ProbDen }

RawProbBatches(n) ==
    { [b \in 1..BatchSize |-> [t \in 1..n |-> Rat(g[b][t], ProbDen)]] :
        g \in [1..BatchSize -> SimplexGrid(n)] }

\* dp of a batch: batch x n_templates x K x 3
DpBatches(n) ==
    { [b \in 1..BatchSize |-> DpField(n, (v + b) % 2)] : v \in {0, 1} }

\* (mutant) probs + eps / n_templates
SmoothNoScale(p, eps, n) == RAdd(p, RDivInt(eps, n))

\* (mutant) (1 - eps)*probs
SmoothNoFloor(p, eps, n) == RMul(RSub(RInt(1), eps), p)

\* (1 - eps)*probs + eps / n_templates
Smooth(p, eps, n) ==
    RAdd(RMul(RSub(RInt(1), eps), p), RDivInt(eps, n))

SmoothedProbs(raw, eps, n) ==
    IF RLt(RInt(0), eps)
    THEN Array([b \in 1..Len(raw) |->
                    Array([t \in 1..n |-> Smooth(raw[b][t], eps, n)])])
    ELSE raw

GetInference ==
    \E raw \in RawProbBatches(n_templates), d \in DpBatches(n_templates) :
        /\ pc = "start"
        /\ raw_probs' = raw
        /\ inference' = [probs |-> SmoothedProbs(raw, ProbEps(params), n_templates),
                         dp |-> d]
        /\ pc' = "inferred"
        /\ UNCHANGED <<predVars, params, global_step, trace, graph, snaps, run>>

----------------------------------------------------------------------------
(* The annealing schedules *)

\* (mutant) 1 - step / cutoff
linear_annealing_factor_unclipped(cutoff, step) ==
    RSub(RInt(1), Rat(step, cutoff))

\* tf.maximum(1 - step / cutoff, 0)
linear_annealing_factor(cutoff, step) ==
    RMax(RSub(RInt(1), Rat(step, cutoff)), RInt(0))

\* tf.exp(-step*rate)
exp_annealing_factor(rate, step) == Rat(1, Pow2(step * rate))

\* (mutant) both schedules set: the linear one is used
annealed_weight_no_raise(kw) ==
    IF IsNone(kw.linear_annealing_cutoff)
    THEN IF IsNone(kw.exp_annealing_rate)
         THEN [raises |-> FALSE, factor |-> "none"]
         ELSE [raises |-> FALSE, factor |-> "exp"]
    ELSE [raises |-> FALSE, factor |-> "linear"]

\* annealed_weight, as the graph it builds: which factor multiplies weight,
\* or the ValueError
annealed_weight(kw) ==
    IF IsNone(kw.linear_annealing_cutoff)
    THEN IF IsNone(kw.exp_annealing_rate)
         THEN [raises |-> FALSE, factor |-> "none"]
         ELSE [raises |-> FALSE, factor |-> "exp"]
    ELSE IF IsNone(kw.exp_annealing_rate)
         THEN [raises |-> FALSE, factor |-> "linear"]
         ELSE [raises |-> TRUE, factor |-> "none"]

\* the value of the weight tensor when its factor read `step`
WeightValue(kw, step) ==
    LET w == annealed_weight(kw) IN
    IF w.factor = "none" THEN kw.weight
    ELSE IF w.factor = "exp"
         THEN RMul(kw.weight, exp_annealing_factor(kw.exp_annealing_rate.v, step))
         ELSE RMul(kw.weight,
                   linear_annealing_factor(kw.linear_annealing_cutoff.v, step))

----------------------------------------------------------------------------
(* get_chamfer_loss *)

\* the basis of the points sampled on template t (get_ffd_dataset with
\* n_samples=n_ffd_samples); the number of rows differs between templates
FfdSampleB(t) == [r \in 1..((t % 2) + 1) |-> [k \in 1..n_control_points |->
                    IF (k + r + t) % 2 = 0 THEN 1 ELSE 0]]

\* sample_tf(b, n_resamples): rows of b drawn with replacement; idx is one
\* outcome of tf.random_uniform
ResampleIndices(t) == [1..NResamples -> 1..Len(FfdSampleB(t))]
sample_tf(b, idx) == Array([r \in 1..Len(idx) |-> b[idx[r]]])

\* get_inferred_point_clouds: einsum('ijk,likm->lijm', b, p + dp), for
\* batch element l and template i
InferredCloud(t, idx, d) ==
    MatMul(sample_tf(FfdSampleB(t), idx), MatAdd(TemplateP(t), d))

SqDist(x, y) ==
    LET d1 == x[1] - y[1]
        d2 == x[2] - y[2]
        d3 == x[3] - y[3]
    IN d1 * d1 + d2 * d2 + d3 * d3

Min(S) == CHOOSE x \in S : \A y \in S : x <= y

\* tf_metrics.chamfer: for each point of one cloud the squared distance to
\* its nearest neighbour in the other cloud, summed, in both directions
Chamfer(A, B) ==
    SumTo([i \in 1..Len(A) |-> Min({ SqDist(A[i], B[j]) : j \in 1..Len(B) })],
          Len(A))
    + SumTo([j \in 1..Len(B) |-> Min({ SqDist(A[i], B[j]) : i \in 1..Len(A) })],
            Len(B))

\* the ground-truth clouds of a batch
Labels == [b \in 1..BatchSize |-> << <<b, 1, 2>>, <<3, b + 1, 0>> >>]

\* gamma, elementwise
Gamma(code, p) ==
    IF code = "linear" THEN Fin(p)
    ELSE IF code = "square" THEN Fin(RMul(p, p))
    ELSE VNeg(TfLog(RSub(RInt(1), p)))

\* tf.reduce_sum(gamma * losses)
get_chamfer_loss(code, inf, idx, n) ==
    VSum([b \in 1..BatchSize |->
            VSum([t \in 1..n |->
                    VMul(Gamma(code, inf.probs[b][t]),
                         Fin(RInt(Chamfer(InferredCloud(t, idx[t], inf.dp[b][t]),
                                          Labels[b]))))],
                 n)],
         BatchSize)

----------------------------------------------------------------------------
(* get_entropy_loss and get_dp_reg_loss *)

\* tf.reduce_mean(probs, axis=0)
MeanProbs(p, n) ==
    Array([t \in 1..n |->
            RDivInt(RSum([b \in 1..Len(p) |-> p[b][t]], Len(p)), Len(p))])

\* tf.reduce_sum(mean_probs * tf.log(mean_probs))
EntropySum(p, n) ==
    LET mean_probs == MeanProbs(p, n) IN
    VSum([t \in 1..n |-> VMul(Fin(mean_probs[t]), TfLog(mean_probs[t]))], n)

get_entropy_loss(p, n, kw, step) ==
    VMul(EntropySum(p, n), Fin(WeightValue(kw, step)))

\* tf.reduce_sum(dp**2, axis=(2, 3)) of one batch element and template
SquaredDp(d) ==
    SumTo([k \in 1..Len(d) |->
            SumTo([a \in 1..3 |-> d[k][a] * d[k][a]], 3)], Len(d))

\* weight_kwargs.pop('uniform', False)
Uniform(kw) == IF IsNone(kw.uniform) THEN FALSE ELSE kw.uniform.v

\* (mutant) tf.reduce_sum(dp**2) whatever 'uniform' is
DpRegSumUnweighted(inf, n, kw) ==
    RInt(SumTo([b \in 1..BatchSize |->
                    SumTo([t \in 1..n |-> SquaredDp(inf.dp[b][t])], n)],
               BatchSize))

DpRegSum(inf, n, kw) ==
    IF Uniform(kw)
    THEN RInt(SumTo([b \in 1..BatchSize |->
                        SumTo([t \in 1..n |-> SquaredDp(inf.dp[b][t])], n)],
                    BatchSize))
    ELSE RSum([b \in 1..BatchSize |->
                RSum([t \in 1..n |->
                        RMul(RInt(SquaredDp(inf.dp[b][t])), inf.probs[b][t])], n)],
              BatchSize)

get_dp_reg_loss(inf, n, kw, step) ==
    Fin(RMul(DpRegSum(inf, n, kw), WeightValue(kw, step)))

----------------------------------------------------------------------------
(* get_inference_loss: what it builds, in order, up to the first error *)

FactorEvents(w) ==
    IF w.factor = "linear" THEN <<"linear_annealing_factor">>
    ELSE IF w.factor = "exp" THEN <<"exp_annealing_factor">>
    ELSE <<>>

GammaEvents(code) ==
    IF code = "square" THEN <<"probs ** 2">>
    ELSE IF code = "log" THEN <<"-tf.log(1 - probs)">>
    ELSE <<>>

\* the extension of a build by one regularizer: its sum, then its weight
BuildRegularizer(build, kwopt, sum_event, name) ==
    IF build.raises \/ IsNone(kwopt) THEN build
    ELSE LET w == annealed_weight(kwopt.v) IN
         IF w.raises
         THEN [raises |-> TRUE,
               trace |-> build.trace \o sum_event \o <<"ValueError">>,
               losses |-> build.losses]
         ELSE [raises |-> FALSE,
               trace |-> build.trace \o sum_event \o FactorEvents(w) \o <<name>>,
               losses |-> Append(build.losses, name)]

BuildChamfer(prm) ==
    IF GammaCode(prm) \in {"linear", "square", "log"}
    THEN [raises |-> FALSE,
          trace |-> GammaEvents(GammaCode(prm)) \o <<"chamfer_loss">>,
          losses |-> <<"chamfer_loss">>]
    ELSE [raises |-> TRUE, trace |-> <<"ValueError">>, losses |-> <<>>]

BuildLoss(prm) ==
    LET withEntropy ==
            BuildRegularizer(BuildChamfer(prm), prm.entropy_loss,
                             <<"mean_probs", "entropy_sum">>, "entropy_loss")
        withDpReg ==
            BuildRegularizer(withEntropy, prm.dp_regularization,
                             <<"dp_reg_sum">>, "dp_reg_loss")
    IN IF withDpReg.raises THEN withDpReg
       ELSE [withDpReg EXCEPT
                !.trace = IF Len(withDpReg.losses) = 1 THEN @
                          ELSE Append(@, "add_n")]

NoSnaps == [entropy_loss |-> None, dp_reg_loss |-> None]
NoRun == [done |-> FALSE]

GetInferenceLoss ==
    /\ pc = "start"
    /\ LET build == BuildLoss(params) IN
        /\ trace' = build.trace
        /\ graph' = build.losses
        /\ pc' = IF build.raises THEN "error" ELSE "built"
    /\ UNCHANGED <<predVars, params, global_step, raw_probs, inference, snaps,
                   run>>

----------------------------------------------------------------------------
(* One evaluation of the loss: each annealing factor reads the global step *)
(* in an op of its own (tf.cast(tf.train.get_or_create_global_step())),    *)
(* then the loss value is computed from what they read.                    *)

KwargsOf(prm, name) ==
    IF name = "entropy_loss" THEN prm.entropy_loss.v ELSE prm.dp_regularization.v

InGraph(name) == \E j \in 1..Len(graph) : graph[j] = name

ReadsStep(name) ==
    /\ InGraph(name)
    /\ annealed_weight(KwargsOf(params, name)).factor # "none"

ReadStep(name) ==
    /\ pc = "built"
    /\ ReadsStep(name)
    /\ IsNone(snaps[name])
    /\ snaps' = [snaps EXCEPT ![name] = Some(global_step)]
    /\ UNCHANGED <<predVars, params, global_step, pc, raw_probs, inference,
                   trace, graph, run>>

ReadStepEntropy == ReadStep("entropy_loss")

ReadStepDpReg == ReadStep("dp_reg_loss")

StepRead(sn, name) == IF IsNone(sn[name]) THEN 0 ELSE sn[name].v

TermValue(name, prm, inf, idx, n, sn) ==
    IF name = "chamfer_loss"
    THEN get_chamfer_loss(GammaCode(prm), inf, idx, n)
    ELSE IF name = "entropy_loss"
    THEN get_entropy_loss(inf.probs, n, prm.entropy_loss.v, StepRead(sn, name))
    ELSE get_dp_reg_loss(inf, n, prm.dp_regularization.v, StepRead(sn, name))

\* (mutant) losses[0]
TotalLossFirst(losses) == losses[1]

\* losses[0] if len(losses) == 1 else tf.add_n(losses)
TotalLoss(losses) ==
    IF Len(losses) = 1 THEN losses[1] ELSE VSum(losses, Len(losses))

\* the arguments tf.log is evaluated at
LogArguments(prm, terms, inf, n) ==
    [entropy |-> IF \E j \in 1..Len(terms) : terms[j] = "entropy_loss"
                 THEN { MeanProbs(inf.probs, n)[t] : t \in 1..n } ELSE {},
     gamma |-> IF GammaCode(prm) = "log"
               THEN { RSub(RInt(1), inf.probs[b][t]) :
                        b \in 1..BatchSize, t \in 1..n }
               ELSE {}]

RunLoss ==
    /\ pc = "built"
    /\ \A name \in {"entropy_loss", "dp_reg_loss"} :
            ReadsStep(name) => ~IsNone(snaps[name])
    /\ \E raw \in RawProbBatches(n_templates), d \in DpBatches(n_templates) :
       \E idx \in [1..n_templates ->
                    UNION { ResampleIndices(t) : t \in 1..n_templates }] :
            /\ \A t \in 1..n_templates : idx[t] \in ResampleIndices(t)
            /\ LET inf == [probs |-> SmoothedProbs(raw, ProbEps(params),
                                                   n_templates),
                           dp |-> d]
                   losses == Array([j \in 1..Len(graph) |->
                                TermValue(graph[j], params, inf, idx,
                                          n_templates, snaps)])
               IN /\ raw_probs' = raw
                  /\ inference' = inf
                  /\ run' = [done |-> TRUE,
                             weights |->
                                [name \in {"entropy_loss", "dp_reg_loss"} |->
                                    IF InGraph(name)
                                    THEN Some(WeightValue(KwargsOf(params, name),
                                                          StepRead(snaps, name)))
                                    ELSE None],
                             summaries |-> losses,
                             loss |-> TotalLoss(losses),
                             log_args |-> LogArguments(params, graph, inf,
                                                       n_templates)]
    /\ pc' = "done"
    /\ UNCHANGED <<predVars, params, global_step, trace, graph, snaps>>

\* get_train_op: optimizer.minimize(loss, step) adds one to the global step
\* when a training step has run
TrainOp ==
    /\ pc = "done"
    /\ global_step < MaxStep
    /\ global_step' = global_step + 1
    /\ pc' = "start"
    /\ raw_probs' = <<>>
    /\ inference' = <<>>
    /\ trace' = <<>>
    /\ graph' = <<>>
    /\ snaps' = NoSnaps
    /\ run' = NoRun
    /\ UNCHANGED <<predVars, params>>

\* the train op of a training step that runs at the same time as this
\* evaluation of the loss (the global step is shared)
TrainOpConcurrent ==
    /\ pc = "built"
    /\ global_step < MaxStep
    /\ global_step' = global_step + 1
    /\ UNCHANGED <<predVars, params, pc, raw_probs, inference, trace, graph,
                   snaps, run>>

\* the caller of get_inference takes the predictions
TakeInference ==
    /\ pc = "inferred"
    /\ pc' = "start"
    /\ raw_probs' = <<>>
    /\ inference' = <<>>
    /\ UNCHANGED <<predVars, params, global_step, trace, graph, snaps, run>>

----------------------------------------------------------------------------
(* The caller takes the returned value (as vis_prediction_data does with   *)
(* mesh = self._mesh_fn(probs, dp)) and is free to make the next call.     *)

Consume ==
    /\ call # NoCall
    /\ call' = NoCall
    /\ probs' = <<>>
    /\ dp' = <<>>
    /\ result' = None
    /\ UNCHANGED <<n_templates, store, ds_keys, argsort_ties, lossVars>>

----------------------------------------------------------------------------
(* Specification of the mesh and cloud post-processors *)

NoKeys == [ann |-> {}, seg |-> {}, pts |-> {}]

Init ==
    /\ n_templates \in 1..MaxTemplates
    /\ store = TemplateStore(n_templates)
    /\ ds_keys = NoKeys
    /\ argsort_ties \in TieRanks(n_templates)
    /\ call = NoCall
    /\ probs = <<>>
    /\ dp = <<>>
    /\ result = None
    /\ params = DefaultParams
    /\ global_step = 0
    /\ pc = "start"
    /\ raw_probs = <<>>
    /\ inference = <<>>
    /\ trace = <<>>
    /\ graph = <<>>
    /\ snaps = NoSnaps
    /\ run = NoRun

Next == PredictMesh \/ PredictTopK \/ PredictCloud \/ Consume

vars == <<n_templates, store, ds_keys, argsort_ties, call, probs, dp,
          result, params, global_step, pc, raw_probs, inference, trace, graph, snaps,
          run>>

Spec == Init /\ [][Next]_vars

----------------------------------------------------------------------------
(* Specification of the segmented post-processors: any pattern of          *)
(* annotation coverage of the templates                                    *)

InitSeg ==
    /\ n_templates \in 1..MaxSegTemplates
    /\ store = TemplateStore(n_templates)
    /\ ds_keys \in [ann : SUBSET (1..n_templates),
                    seg : SUBSET (1..n_templates),
                    pts : SUBSET (1..n_templates)]
    /\ argsort_ties = StableTies(n_templates)
    /\ call = NoCall
    /\ probs = <<>>
    /\ dp = <<>>
    /\ result = None
    /\ params = DefaultParams
    /\ global_step = 0
    /\ pc = "start"
    /\ raw_probs = <<>>
    /\ inference = <<>>
    /\ trace = <<>>
    /\ graph = <<>>
    /\ snaps = NoSnaps
    /\ run = NoRun

NextSeg == PredictSegmentedCloud \/ PredictSegmentedMesh \/ Consume

SpecSeg == InitSeg /\ [][NextSeg]_vars

----------------------------------------------------------------------------
(* Specification of the prediction transforms called one after another in  *)
(* any order on the same builder: any coverage of the templates by the     *)
(* decomposed annotations and by the segmented point clouds, any order of  *)
(* ties of the argsort                                                     *)

FrameKeys(n) ==
    { [ann |-> A, seg |-> S, pts |-> S] : A, S \in SUBSET (1..n) }

InitFrame ==
    /\ n_templates \in 1..MaxSegTemplates
    /\ store = TemplateStore(n_templates)
    /\ ds_keys \in FrameKeys(n_templates)
    /\ argsort_ties \in TieRanks(n_templates)
    /\ call = NoCall
    /\ probs = <<>>
    /\ dp = <<>>
    /\ result = None
    /\ params = DefaultParams
    /\ global_step = 0
    /\ pc = "start"
    /\ raw_probs = <<>>
    /\ inference = <<>>
    /\ trace = <<>>
    /\ graph = <<>>
    /\ snaps = NoSnaps
    /\ run = NoRun

NextFrame ==
    \/ PredictMesh
    \/ PredictTopK
    \/ PredictCloud
    \/ PredictSegmentedCloud
    \/ PredictSegmentedMesh
    \/ Consume

SpecFrame == InitFrame /\ [][NextFrame]_vars

----------------------------------------------------------------------------
(* Specification of get_inference: every prob_eps, every softmax output    *)

InitInference ==
    /\ n_templates \in 1..MaxTemplates
    /\ store = TemplateStore(n_templates)
    /\ ds_keys = NoKeys
    /\ argsort_ties = StableTies(n_templates)
    /\ call = NoCall
    /\ probs = <<>>
    /\ dp = <<>>
    /\ result = None
    /\ params \in [gamma : {None},
                   prob_eps : {None, Some(RInt(0)), Some(Rat(1, 2)), Some(RInt(1))},
                   entropy_loss : {None},
                   dp_regularization : {None}]
    /\ global_step = 0
    /\ pc = "start"
    /\ raw_probs = <<>>
    /\ inference = <<>>
    /\ trace = <<>>
    /\ graph = <<>>
    /\ snaps = NoSnaps
    /\ run = NoRun

NextInference == GetInference \/ TakeInference

SpecInference == InitInference /\ [][NextInference]_vars

----------------------------------------------------------------------------
(* Specification of training: every configuration of the loss, the train   *)
(* op running after each evaluation of the loss                            *)

LossConfigs ==
    [gamma : {None, Some("square"), Some("log"), Some("cubic")},
     prob_eps : {None},
     entropy_loss : {None} \cup { Some(kw) : kw \in RegKwargs({None}) },
     dp_regularization :
        {None} \cup { Some(kw) : kw \in RegKwargs({None, Some(TRUE)}) }]

InitLoss ==
    /\ n_templates \in 1..MaxLossTemplates
    /\ store = TemplateStore(n_templates)
    /\ ds_keys = NoKeys
    /\ argsort_ties = StableTies(n_templates)
    /\ call = NoCall
    /\ probs = <<>>
    /\ dp = <<>>
    /\ result = None
    /\ params \in LossConfigs
    /\ global_step = 0
    /\ pc = "start"
    /\ raw_probs = <<>>
    /\ inference = <<>>
    /\ trace = <<>>
    /\ graph = <<>>
    /\ snaps = NoSnaps
    /\ run = NoRun

NextLoss ==
    \/ GetInferenceLoss
    \/ ReadStepEntropy
    \/ ReadStepDpReg
    \/ RunLoss

SpecLoss == InitLoss /\ [][NextLoss]_vars

----------------------------------------------------------------------------
(* Specification of the logarithms of the loss: gamma mode 'log' and the   *)
(* entropy regularizer, with and without label smoothing                   *)

LogConfigs ==
    [gamma : {Some("log")},
     prob_eps : {None, Some(RInt(0)), Some(RInt(1))},
     entropy_loss :
        {None, Some([weight |-> RInt(2), uniform |-> None,
                     linear_annealing_cutoff |-> None,
                     exp_annealing_rate |-> None])},
     dp_regularization : {None}]

InitLog ==
    /\ n_templates \in 1..MaxLossTemplates
    /\ store = TemplateStore(n_templates)
    /\ ds_keys = NoKeys
    /\ argsort_ties = StableTies(n_templates)
    /\ call = NoCall
    /\ probs = <<>>
    /\ dp = <<>>
    /\ result = None
    /\ params \in LogConfigs
    /\ global_step = 0
    /\ pc = "start"
    /\ raw_probs = <<>>
    /\ inference = <<>>
    /\ trace = <<>>
    /\ graph = <<>>
    /\ snaps = NoSnaps
    /\ run = NoRun

NextLog == GetInferenceLoss \/ RunLoss

SpecLog == InitLog /\ [][NextLog]_vars

----------------------------------------------------------------------------
(* Specification of training with annealed regularizers: training steps    *)
(* follow one another, and train ops of other training steps run while the *)
(* loss is evaluated                                                       *)

TrainConfigs ==
    [gamma : {None},
     prob_eps : {None},
     entropy_loss : {None} \cup { Some(kw) : kw \in RegKwargs({None}) },
     dp_regularization : {None} \cup { Some(kw) : kw \in RegKwargs({None}) }]

InitTrain ==
    /\ n_templates \in 1..MaxTrainTemplates
    /\ store = TemplateStore(n_templates)
    /\ ds_keys = NoKeys
    /\ argsort_ties = StableTies(n_templates)
    /\ call = NoCall
    /\ probs = <<>>
    /\ dp = <<>>
    /\ result = None
    /\ params \in TrainConfigs
    /\ global_step = 0
    /\ pc = "start"
    /\ raw_probs = <<>>
    /\ inference = <<>>
    /\ trace = <<>>
    /\ graph = <<>>
    /\ snaps = NoSnaps
    /\ run = NoRun

NextTrain ==
    \/ GetInferenceLoss
    \/ ReadStepEntropy
    \/ ReadStepDpReg
    \/ RunLoss
    \/ TrainOp
    \/ TrainOpConcurrent

SpecTrain == InitTrain /\ [][NextTrain]_vars

----------------------------------------------------------------------------
(* Specification of the dp regularizer: 'uniform' absent, False and True,  *)
(* every annealing of its weight, at every global step                     *)

RegConfigs ==
    [gamma : {None},
     prob_eps : {None},
     entropy_loss : {None},
     dp_regularization :
        { Some(kw) : kw \in RegKwargs({None, Some(FALSE), Some(TRUE)}) }]

InitReg ==
    /\ n_templates \in 1..MaxLossTemplates
    /\ store = TemplateStore(n_templates)
    /\ ds_keys = NoKeys
    /\ argsort_ties = StableTies(n_templates)
    /\ call = NoCall
    /\ probs = <<>>
    /\ dp = <<>>
    /\ result = None
    /\ params \in RegConfigs
    /\ global_step = 0
    /\ pc = "start"
    /\ raw_probs = <<>>
    /\ inference = <<>>
    /\ trace = <<>>
    /\ graph = <<>>
    /\ snaps = NoSnaps
    /\ run = NoRun

NextReg ==
    \/ GetInferenceLoss
    \/ ReadStepDpReg
    \/ RunLoss
    \/ TrainOp

SpecReg == InitReg /\ [][NextReg]_vars

----------------------------------------------------------------------------
(* Properties of the post-processors *)

Range(f) == { f[i] : i \in DOMAIN f }

\* C1: for every probs and every top_k in 1..n_templates, the top-k
\* transform returns exactly top_k meshes, and they are the meshes of
\* top_k highest-probability templates: no template outside the result has
\* a strictly higher probability than one inside it.
C1_TopKReturnsKBest ==
    call.fn = "top_k" =>
        /\ Len(result.v) = call.top_k
        /\ \A j \in 1..Len(result.v) :
                result.v[j] = get_deformed_mesh(store, call.ks[j], dp)
        /\ \A i \in (1..n_templates) \ Range(call.ks) :
                \A j \in Range(call.ks) : probs[i] <= probs[j]

\* C2: a segmented post-processor returns None whenever the argmax-selected
\* template lacks its basis, its control points or its segmentation, and
\* every result it does return carries a segmentation.
SelectedIsMissingData ==
    LET i == ArgMax(probs) IN
    IF call.fn = "segmented_cloud"
    THEN i \notin ds_keys.ann \/ i \notin ds_keys.seg
    ELSE i \notin ds_keys.seg

C2_SegmentedAbsentWhenMissing ==
    call.fn \in {"segmented_cloud", "segmented_mesh"} =>
        /\ SelectedIsMissingData => IsNone(result)
        /\ ~IsNone(result) => ~IsNone(result.v.segmentation)

\* C7: the best-mesh transform selects an index i holding the maximum of
\* probs, the lowest such index on ties, and every field of the result is
\* that of template i: vertices = B_i (P_i + dp_i), faces and
\* original_vertices are template i's, template_id is template i's id.
IsFirstMaximum(i) ==
    /\ \A j \in 1..n_templates : probs[j] <= probs[i]
    /\ \A j \in 1..n_templates : probs[j] = probs[i] => i <= j

RECURSIVE DeformedEntry(_, _, _, _)
DeformedEntry(i, r, c, k) ==
    IF k = 0 THEN 0
    ELSE TemplateB(i)[r][k] * (TemplateP(i)[k][c] + dp[i][k][c])
            + DeformedEntry(i, r, c, k - 1)

C7_BestMeshIsFirstArgmax ==
    call.fn = "mesh" =>
        \E i \in 1..n_templates :
            /\ IsFirstMaximum(i)
            /\ Len(result.v.vertices) = Len(TemplateB(i))
            /\ \A r \in 1..Len(TemplateB(i)) : \A c \in 1..3 :
                    result.v.vertices[r][c]
                        = DeformedEntry(i, r, c, n_control_points)
            /\ result.v.faces = TemplateFaces(i)
            /\ result.v.original_vertices = TemplateVertices(i)
            /\ result.v.attrs.template_id = TemplateId(i)

\* a best-mesh call on probs whose maximum is held by two templates, the
\* first of them not template 1, with a non-zero deformation
C7_Witness ==
    /\ call.fn = "mesh"
    /\ \E i, j \in 2..n_templates :
            i < j /\ probs[i] = probs[j] /\ IsFirstMaximum(i)
    /\ dp = DpField(n_templates, 1)

----------------------------------------------------------------------------
(* Properties of get_inference and of the loss *)

REq(x, y) == x[1] * y[2] = y[1] * x[2]

\* C3: every configuration error of get_inference_loss is raised before
\* any loss term is built: no ValueError follows the Chamfer loss, the
\* entropy sum or the dp-regularizer sum.
C3_ConfigErrorsBeforeTerms ==
    pc = "error" =>
        \A j \in 1..Len(trace) :
            trace[j] \notin {"chamfer_loss", "entropy_sum", "dp_reg_sum"}

\* C4: annealed_weight raises ValueError exactly when both
\* linear_annealing_cutoff and exp_annealing_rate are set; with neither it
\* returns weight, whatever the step; with the cutoff alone weight times
\* the linear factor; with the rate alone weight times the exponential
\* factor.
WeightCalled(name) ==
    \E j \in 1..Len(trace) :
        trace[j] = (IF name = "entropy_loss" THEN "entropy_sum" ELSE "dp_reg_sum")

WeightRaised(name) ==
    /\ pc = "error"
    /\ Len(trace) >= 2
    /\ trace[Len(trace)] = "ValueError"
    /\ trace[Len(trace) - 1]
            = (IF name = "entropy_loss" THEN "entropy_sum" ELSE "dp_reg_sum")

ExpectedWeight(kw, step) ==
    IF IsNone(kw.linear_annealing_cutoff) /\ IsNone(kw.exp_annealing_rate)
    THEN kw.weight
    ELSE IF IsNone(kw.exp_annealing_rate)
    THEN IF step >= kw.linear_annealing_cutoff.v THEN RInt(0)
         ELSE RMul(kw.weight, Rat(kw.linear_annealing_cutoff.v - step,
                                  kw.linear_annealing_cutoff.v))
    ELSE RDivInt(kw.weight, Pow2(step * kw.exp_annealing_rate.v))

C4_AnnealedWeight ==
    \A name \in {"entropy_loss", "dp_reg_loss"} :
        WeightCalled(name) =>
            LET kw == KwargsOf(params, name) IN
            /\ WeightRaised(name) <=>
                    (~IsNone(kw.linear_annealing_cutoff)
                        /\ ~IsNone(kw.exp_annealing_rate))
            /\ run.done =>
                    /\ ~IsNone(run.weights[name])
                    /\ REq(run.weights[name].v,
                           ExpectedWeight(kw, StepRead(snaps, name)))

\* an evaluation whose entropy weight is linearly annealed and whose
\* dp-regularizer weight is exponentially annealed, both read after step 0
C4_Witness ==
    /\ run.done
    /\ ~IsNone(params.entropy_loss) /\ ~IsNone(params.dp_regularization)
    /\ ~IsNone(params.entropy_loss.v.linear_annealing_cutoff)
    /\ ~IsNone(params.dp_regularization.v.exp_annealing_rate)
    /\ StepRead(snaps, "entropy_loss") = 1
    /\ StepRead(snaps, "dp_reg_loss") = 2
    /\ run.weights["entropy_loss"].v = RInt(1)
    /\ run.weights["dp_reg_loss"].v = Rat(1, 2)

\* C5: within one evaluation of the loss both annealing factors are
\* computed from the same value of the global step, also when a train op
\* increments the step during the evaluation.
C5_SameStepSnapshot ==
    (~IsNone(snaps["entropy_loss"]) /\ ~IsNone(snaps["dp_reg_loss"])) =>
        snaps["entropy_loss"].v = snaps["dp_reg_loss"].v

\* C6: for simplex-valued probs and prob_eps in [0, 1] the probs returned
\* by get_inference sum to 1, every entry is at least prob_eps / n_templates
\* and at most 1, and with prob_eps = 0 they are the softmax output.
C6_SmoothedSimplex ==
    pc = "inferred" =>
        LET eps == ProbEps(params) IN
        /\ \A b \in 1..BatchSize :
            /\ REq(RSum(inference.probs[b], n_templates), RInt(1))
            /\ \A t \in 1..n_templates :
                /\ RLe(<<eps[1], eps[2] * n_templates>>, inference.probs[b][t])
                /\ RLe(inference.probs[b][t], RInt(1))
        /\ REq(eps, RInt(0)) => inference.probs = raw_probs

\* smoothing with eps = 1/2 of a batch over three templates that holds a
\* one-hot softmax output
C6_Witness ==
    /\ pc = "inferred"
    /\ n_templates = 3
    /\ ProbEps(params) = Rat(1, 2)
    /\ \E b \in 1..BatchSize : \E t, u \in 1..n_templates :
            /\ raw_probs[b][t] = RInt(1)
            /\ raw_probs[b][u] = RInt(0)
            /\ inference.probs[b][t] = Rat(2, 3)
            /\ inference.probs[b][u] = Rat(1, 6)

\* C8: for every accepted configuration the loss is the sum of the
\* Chamfer loss, the entropy loss iff params['entropy_loss'] is present and
\* the dp regularizer iff params['dp_regularization'] is present; with
\* neither it is the Chamfer loss alone.
TermOrZero(present, value) == IF present THEN value ELSE Fin(RInt(0))

VEq(x, y) == (x.fin <=> y.fin) /\ (x.fin => REq(x.v, y.v))

C8_LossIsSumOfTerms ==
    run.done =>
        LET hasEntropy == ~IsNone(params.entropy_loss)
            hasDpReg == ~IsNone(params.dp_regularization)
        IN
        /\ graph[1] = "chamfer_loss"
        /\ InGraph("entropy_loss") <=> hasEntropy
        /\ InGraph("dp_reg_loss") <=> hasDpReg
        /\ Len(graph) = 1 + (IF hasEntropy THEN 1 ELSE 0)
                          + (IF hasDpReg THEN 1 ELSE 0)
        /\ VEq(run.loss,
               VAdd(run.summaries[1],
                    VAdd(TermOrZero(hasEntropy,
                            get_entropy_loss(inference.probs, n_templates,
                                KwargsOf(params, "entropy_loss"),
                                StepRead(snaps, "entropy_loss"))),
                         TermOrZero(hasDpReg,
                            get_dp_reg_loss(inference, n_templates,
                                KwargsOf(params, "dp_reg_loss"),
                                StepRead(snaps, "dp_reg_loss"))))))
        /\ (~hasEntropy /\ ~hasDpReg) => run.loss = run.summaries[1]

\* a loss of three finite non-zero terms
C8_Witness ==
    /\ run.done
    /\ Len(graph) = 3
    /\ \A j \in 1..3 : run.summaries[j].fin /\ run.summaries[j].v[1] # 0
    /\ run.loss.fin
    /\ \A j \in 1..3 : run.loss # run.summaries[j]

\* C9 as stated: with eps > 0, for every simplex-valued softmax output and
\* every n_templates >= 1, no logarithm of the loss is evaluated at 0: every
\* entry of mean_probs is > 0 and, in gamma mode 'log', every entry of
\* 1 - probs is > 0.
C9_NoLogOfZero ==
    (run.done /\ RLt(RInt(0), ProbEps(params))) =>
        \A x \in run.log_args.entropy \cup run.log_args.gamma : RLt(RInt(0), x)

\* C9 amended: with eps > 0 every entry of mean_probs is > 0 for every
\* n_templates >= 1, and in gamma mode 'log' every entry of 1 - probs is
\* > 0 when n_templates >= 2 (a single template has probs = 1).
C9_NoLogOfZeroAmended ==
    (run.done /\ RLt(RInt(0), ProbEps(params))) =>
        /\ \A x \in run.log_args.entropy : RLt(RInt(0), x)
        /\ n_templates >= 2 => \A x \in run.log_args.gamma : RLt(RInt(0), x)

\* gamma mode 'log' and the entropy regularizer, smoothing on, over two or
\* more templates, a batch whose softmax outputs are all the same one-hot
\* vector
C9_Witness ==
    /\ run.done
    /\ n_templates >= 2
    /\ ProbEps(params) = Rat(1, 10)
    /\ GammaCode(params) = "log"
    /\ InGraph("entropy_loss")
    /\ \E t, u \in 1..n_templates : \A b \in 1..BatchSize :
            raw_probs[b][t] = RInt(1) /\ raw_probs[b][u] = RInt(0)
    /\ run.log_args.gamma # {}
    /\ run.log_args.entropy # {}
    /\ run.loss.fin

\* C10: for a cutoff > 0 and a global step that starts at 0 and never
\* decreases, linear_annealing_factor(cutoff) is 1 at step 0, 1 - step/cutoff
\* up to the cutoff, 0 from the cutoff on, within [0, 1], never increases
\* and stays 0 once it is 0.
Cutoffs ==
    { kwopt.v.linear_annealing_cutoff.v :
        kwopt \in { k \in {params.entropy_loss, params.dp_regularization} :
                        IF IsNone(k) THEN FALSE
                        ELSE ~IsNone(k.v.linear_annealing_cutoff) } }

LinearFactorShape ==
    \A c \in Cutoffs :
        LET f == linear_annealing_factor(c, global_step) IN
        /\ global_step = 0 => REq(f, RInt(1))
        /\ global_step <= c => REq(f, Rat(c - global_step, c))
        /\ global_step >= c => REq(f, RInt(0))
        /\ RLe(RInt(0), f) /\ RLe(f, RInt(1))

LinearFactorStep ==
    \A c \in Cutoffs :
        /\ global_step' >= global_step
        /\ RLe(linear_annealing_factor(c, global_step'),
               linear_annealing_factor(c, global_step))
        /\ REq(linear_annealing_factor(c, global_step), RInt(0))
                => REq(linear_annealing_factor(c, global_step'), RInt(0))

C10_LinearAnnealing == [](LinearFactorShape) /\ [][LinearFactorStep]_vars

\* a linearly annealed entropy weight read after the cutoff: it is 0
C10_Witness ==
    /\ run.done
    /\ ~IsNone(params.entropy_loss)
    /\ ~IsNone(params.entropy_loss.v.linear_annealing_cutoff)
    /\ IsNone(params.entropy_loss.v.exp_annealing_rate)
    /\ StepRead(snaps, "entropy_loss") > params.entropy_loss.v.linear_annealing_cutoff.v
    /\ run.weights["entropy_loss"].v = RInt(0)

----------------------------------------------------------------------------
(* Properties of the dp regularizer *)

\* the sum of dp^2 over the control points and axes of template t of batch
\* element b
DpSquares(b, t) ==
    LET d == inference.dp[b][t] IN
    SumTo([e \in 1..(3 * Len(d)) |->
            d[((e - 1) \div 3) + 1][((e - 1) % 3) + 1]
                * d[((e - 1) \div 3) + 1][((e - 1) % 3) + 1]],
          3 * Len(d))

\* the sum over every batch element and template of f(b, t)
OverBatchAndTemplates(f(_, _)) ==
    RSum([e \in 1..(BatchSize * n_templates) |->
            f(((e - 1) \div n_templates) + 1, ((e - 1) % n_templates) + 1)],
         BatchSize * n_templates)

UnweightedSquares(b, t) == RInt(DpSquares(b, t))

WeightedSquares(b, t) == RMul(inference.probs[b][t], RInt(DpSquares(b, t)))

DpRegTerm == run.summaries[CHOOSE j \in 1..Len(graph) : graph[j] = "dp_reg_loss"]

\* C11: with uniform=True the dp regularizer is weight * the sum over all
\* batch elements, templates, control points and axes of dp^2, whatever
\* probs is; with uniform absent or False it is weight * the sum over
\* batch b and template t of probs[b,t] * (the sum over control points and
\* axes of dp[b,t]^2).
C11_DpRegLoss ==
    (run.done /\ InGraph("dp_reg_loss")) =>
        LET kw == params.dp_regularization.v
            weight == run.weights["dp_reg_loss"].v
        IN VEq(DpRegTerm,
               Fin(RMul(weight,
                        IF kw.uniform = Some(TRUE)
                        THEN OverBatchAndTemplates(UnweightedSquares)
                        ELSE OverBatchAndTemplates(WeightedSquares))))

\* a probability-weighted regularizer of templates with unequal
\* probabilities and unequal shifts, whose value is not the uniform one
C11_Witness ==
    /\ run.done
    /\ InGraph("dp_reg_loss")
    /\ params.dp_regularization.v.uniform = Some(FALSE)
    /\ n_templates >= 2
    /\ \E b \in 1..BatchSize :
            /\ DpSquares(b, 1) # DpSquares(b, 2)
            /\ ~REq(inference.probs[b][1], inference.probs[b][2])
    /\ DpRegTerm.fin
    /\ DpRegTerm.v[1] # 0
    /\ ~REq(DpRegTerm.v,
            RMul(run.weights["dp_reg_loss"].v,
                 OverBatchAndTemplates(UnweightedSquares)))

----------------------------------------------------------------------------
(* Properties of the order of the top-k meshes *)

\* C12: the meshes returned by the top-k transform are ordered by
\* non-increasing probability of their template, and among templates with
\* equal probability the one with the lower template index comes first
\* (the tie-break of a stable descending sort).
C12_TopKStableDescending ==
    call.fn = "top_k" =>
        \A i, j \in 1..Len(call.ks) :
            i < j =>
                /\ probs[call.ks[i]] >= probs[call.ks[j]]
                /\ probs[call.ks[i]] = probs[call.ks[j]]
                        => call.ks[i] < call.ks[j]

----------------------------------------------------------------------------
(* Frame of the prediction transforms *)

\* what transform c.fn returns for the arguments of call c on the
\* per-template data st, the annotation coverage keys and the tie order of
\* the argsort
TransformOf(c, st, keys, ties) ==
    IF c.fn = "mesh" THEN Some(MeshResult(st, c.probs, c.dp))
    ELSE IF c.fn = "top_k"
    THEN Some(TopKResult(st, ArgSort(c.probs, ties), c.dp))
    ELSE IF c.fn = "cloud" THEN Some(CloudResult(st, c.probs, c.dp))
    ELSE IF c.fn = "segmented_cloud"
    THEN SegmentedCloudResult(SegCloudLists(keys, n_templates), c.probs, c.dp)
    ELSE SegmentedMeshResult(SegMeshLists(st, keys, n_templates),
                             c.probs, c.dp)

\* the stored data are the data as loaded, the caller's arrays are the
\* arguments it passed, and the result is the transform of the arguments on
\* the data as loaded
DataAsLoaded ==
    /\ store = TemplateStore(n_templates)
    /\ call # NoCall =>
        /\ probs = call.probs
        /\ dp = call.dp
        /\ result = TransformOf(call, TemplateStore(n_templates), ds_keys,
                                argsort_ties)

\* no step changes the stored data or what the datasets hold
DataFrame ==
    /\ n_templates' = n_templates
    /\ store' = store
    /\ ds_keys' = ds_keys
    /\ argsort_ties' = argsort_ties

\* C13: after any sequence of calls to the prediction transforms
\* (best-mesh, top-k mesh, best-cloud, segmented cloud, segmented mesh) the
\* stored per-template data and the caller's probs and dp are unchanged, so
\* that what a call returns depends on its transform and its (probs, dp)
\* only: two calls of the same transform with equal (probs, dp) return
\* equal results whatever was called in between.
C13_TransformsAreReadOnly == [](DataAsLoaded) /\ [][DataFrame]_vars

\* a segmented mesh returned for a non-zero dp on a store as loaded
C13_Witness ==
    /\ call.fn = "segmented_mesh"
    /\ ~IsNone(result)
    /\ \E t \in 1..n_templates :
            dp[t] # [k \in 1..n_control_points |-> [a \in 1..3 |-> 0]]
    /\ result.v.vertices
            = MatMul(TemplateB(ArgMax(probs)),
                     MatAdd(TemplateP(ArgMax(probs)), dp[ArgMax(probs)]))
    /\ store = TemplateStore(n_templates)

====
